---- MODULE Spec2Model ----
(***************************************************************************)
(* A model of the normalisation layer of protest_imf_datapull:             *)
(*   macro_data_api.py            country resolution, IMF CompactData,     *)
(*                                World Bank pagination                    *)
(*   macro_data_api_datamapper.py IMF DataMapper                           *)
(*                                                                         *)
(* Each component has its own specification over the shared variables      *)
(* (SpecKey, SpecWB, ...): the components share no state in the code, so   *)
(* a behaviour exercises one component and leaves the others at rest.      *)
(*                                                                         *)
(* Representation.  Python str values that the code orders or upper-cases  *)
(* (area codes, series keys) are sequences of code points, so that         *)
(* sorted() and str.upper() are computed and not assumed.  A raised        *)
(* exception is the record [raised |-> <exception class>].  None is Null.  *)
(***************************************************************************)
EXTENDS Integers, Sequences, FiniteSets, TLC

VARIABLES
    \* _build_imf_compact_url
    compact_args,    \* the arguments of the call
    compact_url,     \* what the call returned or raised; NotCalled before it
    \* wb_fetch_indicator
    wb_srv,          \* how the World Bank server answers during this call
    page,            \* the loop's 1-based page counter
    wb_rows,         \* rows accumulated so far
    wb_requests,     \* the page number of every GET issued, in order
    wb_responses,    \* the payload of every response read, in order
    wb_pc,           \* "loop", "after_loop", "done", "raised"; "rest" outside a call
    wb_df,           \* the returned table
    \* resolve_country
    raw_name,        \* the argument of the call
    c,               \* the CountryCode returned, or what was raised
    fuzzy_calls,     \* the queries passed to pycountry's search_fuzzy, in order
    \* build_country_table
    raw_names,       \* the argument of the call
    country_rows,    \* rows built so far
    fuzzy_results,   \* per name processed, what search_fuzzy answered (or NoFuzzy)
    table_pc,        \* "loop", "done"; "rest" outside a call
    country_table,   \* the returned table
    \* imf_compact_to_df
    json_obj,        \* the argument of the call
    df,              \* the returned table, or what was raised
    \* fetch_imf_series, imf_compact_request, imf_compact_request_raw
    pull_call,       \* the function called and its arguments
    http_log,        \* the response to every GET the call issued, in order
    pull_result,     \* what the call returned, or what it raised
    \* imf_dm_fetch_indicator, over the life of one process
    dm_args,         \* the arguments of the latest call
    dm_request,      \* the path and query parameters of the latest call's GET
    dm_requests,     \* every GET issued so far, in order: its endpoint, and
                     \* whether raise_for_status() let the response through
    dm_calls,        \* calls made so far
    dm_resp,         \* the response to the latest call's GET
    dm_ref,          \* what the reference-area endpoints answer the latest call
    dm_df            \* what the latest call returned, or what it raised

keyVars == <<compact_args, compact_url>>
wbVars == <<wb_srv, page, wb_rows, wb_requests, wb_responses, wb_pc, wb_df>>
resolveVars == <<raw_name, c, fuzzy_calls>>
tableVars == <<raw_names, country_rows, fuzzy_results, table_pc, country_table>>
parseVars == <<json_obj, df>>
pullVars == <<pull_call, http_log, pull_result>>
dmVars == <<dm_args, dm_request, dm_requests, dm_calls, dm_resp, dm_ref, dm_df>>
vars == <<keyVars, wbVars, resolveVars, tableVars, parseVars, pullVars, dmVars>>

\* what an action of one component leaves alone: the other components
notKey == <<wbVars, resolveVars, tableVars, parseVars, pullVars, dmVars>>
notWb == <<keyVars, resolveVars, tableVars, parseVars, pullVars, dmVars>>
notResolve == <<keyVars, wbVars, tableVars, parseVars, pullVars, dmVars>>
notTable == <<keyVars, wbVars, resolveVars, parseVars, pullVars, dmVars>>
notParse == <<keyVars, wbVars, resolveVars, tableVars, pullVars, dmVars>>
notPull == <<keyVars, wbVars, resolveVars, tableVars, parseVars, dmVars>>
notDm == <<keyVars, wbVars, resolveVars, tableVars, parseVars, pullVars>>

Null == "None"
NotCalled == [status |-> "not called"]
Raised(exc) == [raised |-> exc]

\* ------------------------------------------------------------------------
\* Python str as a sequence of code points
\* ------------------------------------------------------------------------
Min(a, b) == IF a <= b THEN a ELSE b

\* str.upper() on ASCII letters: 'a'..'z' (97..122) map to 'A'..'Z' (65..90)
UpperChar(ch) == IF ch >= 97 /\ ch <= 122 THEN ch - 32 ELSE ch
LowerChar(ch) == IF ch >= 65 /\ ch <= 90 THEN ch + 32 ELSE ch
Upper(s) == [i \in 1..Len(s) |-> UpperChar(s[i])]
Lower(s) == [i \in 1..Len(s) |-> LowerChar(s[i])]

\* Python's str ordering: lexicographic by code point, a proper prefix first
StrLess(a, b) ==
    \E k \in 1..(Min(Len(a), Len(b)) + 1) :
        /\ \A i \in 1..(k - 1) : a[i] = b[i]
        /\ \/ k > Len(a) /\ k <= Len(b)
           \/ k <= Len(a) /\ k <= Len(b) /\ a[k] < b[k]

\* sorted(S) for a set of str
RECURSIVE sorted(_)
sorted(S) ==
    IF S = {} THEN <<>>
    ELSE LET m == CHOOSE x \in S : \A y \in S \ {x} : StrLess(x, y)
         IN  <<m>> \o sorted(S \ {m})

\* sep.join(parts)
RECURSIVE join(_, _)
join(sep, parts) ==
    IF Len(parts) = 0 THEN <<>>
    ELSE IF Len(parts) = 1 THEN parts[1]
    ELSE parts[1] \o sep \o join(sep, Tail(parts))

Range(s) == {s[i] : i \in 1..Len(s)}

RECURSIVE SeqsUpTo(_, _)
\* all sequences over S of length 0..n
SeqsUpTo(S, n) ==
    IF n = 0 THEN {<<>>}
    ELSE LET shorter == SeqsUpTo(S, n - 1)
         IN  shorter \cup {Append(s, x) : s \in {t \in shorter : Len(t) = n - 1}, x \in S}

\* ------------------------------------------------------------------------
\* IMF CompactData: request construction
\* ------------------------------------------------------------------------
MaxAreas == 3

PLUS == <<43>>    \* "+"
DOT == <<46>>     \* "."

\* "AR", "ar", "Ar", "BR", "br", "ZA"
AreaCodes == {<<65, 82>>, <<97, 114>>, <<65, 114>>, <<66, 82>>, <<98, 114>>, <<90, 65>>}
Freqs == {<<77>>, <<81>>}            \* "M", "Q"
Indicators == {<<80, 67, 80, 73>>}   \* "PCPI"
Datasets == {"CPI"}

\* the areas as the code writes them, lower case kept: sorted(set(iso2_list))
AreasCaseKept(iso2_list) == sorted(Range(iso2_list))

\* sorted(set(code.upper() for code in iso2_list))
Areas(iso2_list) == sorted({Upper(code) : code \in Range(iso2_list)})

\* the URL built whatever the list, the emptiness test left out
BuildWithoutEmptyCheck(dataset, freq, indicator, iso2_list, start_period, end_period) ==
    LET areas == join(PLUS, Areas(iso2_list))
        key == freq \o DOT \o areas \o DOT \o indicator
    IN  [status |-> "ok",
         key |-> key,
         url |-> <<"IMF_JSON_BASE_URL", "CompactData", dataset, key>>,
         params |-> [startPeriod |-> start_period, endPeriod |-> end_period]]

_build_imf_compact_url(dataset, freq, indicator, iso2_list, start_period, end_period) ==
    IF iso2_list = <<>> THEN Raised("ValueError")
    ELSE LET areas == join(PLUS, Areas(iso2_list))
             key == freq \o DOT \o areas \o DOT \o indicator
         IN  [status |-> "ok",
              key |-> key,
              url |-> <<"IMF_JSON_BASE_URL", "CompactData", dataset, key>>,
              params |-> [startPeriod |-> start_period, endPeriod |-> end_period]]

CompactArgs ==
    [dataset : Datasets, freq : Freqs, indicator : Indicators,
     iso2_list : SeqsUpTo(AreaCodes, MaxAreas),
     start_period : {"1990"}, end_period : {"2030"}]

KeyStart ==
    /\ compact_args \in CompactArgs
    /\ compact_url = NotCalled

KeyRest ==
    /\ compact_args = [status |-> "rest"]
    /\ compact_url = NotCalled

BuildUrl ==
    /\ compact_url = NotCalled
    /\ compact_url' = _build_imf_compact_url(
           compact_args.dataset, compact_args.freq, compact_args.indicator,
           compact_args.iso2_list, compact_args.start_period, compact_args.end_period)
    /\ UNCHANGED <<compact_args, notKey>>

\* ---- C1 ----
KeyOf(iso2_list) ==
    _build_imf_compact_url(compact_args.dataset, compact_args.freq, compact_args.indicator,
                           iso2_list, compact_args.start_period, compact_args.end_period).key

Reorderings(l) ==
    {[i \in 1..Len(l) |-> l[p[i]]] :
        p \in {q \in [1..Len(l) -> 1..Len(l)] : \A i, j \in 1..Len(l) : i # j => q[i] # q[j]}}
Duplications(l) ==
    {Append(l, l[i]) : i \in 1..Len(l)} \cup {<<l[i]>> \o l : i \in 1..Len(l)}
\* a code in upper case, in lower case, and with the case of each letter swapped
Spellings(code) ==
    {Upper(code), Lower(code),
     [i \in 1..Len(code) |-> IF UpperChar(code[i]) = code[i] THEN LowerChar(code[i])
                                                             ELSE UpperChar(code[i])]}
RECURSIVE Respellings(_)
Respellings(l) ==
    IF Len(l) = 0 THEN {<<>>}
    ELSE {<<h>> \o t : h \in Spellings(Head(l)), t \in Respellings(Tail(l))}

\* the upper-cased, deduplicated codes of l, in strictly increasing order
CanonicalAreas(l) ==
    LET U == {Upper(x) : x \in Range(l)}
        n == Cardinality(U)
    IN  CHOOSE s \in [1..n -> U] : \A i \in 1..(n - 1) : StrLess(s[i], s[i + 1])

\* C1: for a non-empty area list, the series key is the same for every
\* permutation, every duplication and every upper/lower-case spelling of the
\* list, and it is '{freq}.{areas}.{indicator}' where areas is the
\* upper-cased, deduplicated codes in sorted order joined by '+'.
C1_KeyCanonical ==
    (compact_url # NotCalled /\ compact_args.iso2_list # <<>>) =>
        /\ compact_url.status = "ok"
        /\ \A l \in Reorderings(compact_args.iso2_list)
                    \cup Duplications(compact_args.iso2_list)
                    \cup Respellings(compact_args.iso2_list) :
               KeyOf(l) = compact_url.key
        /\ compact_url.key =
               compact_args.freq \o DOT
                 \o join(PLUS, CanonicalAreas(compact_args.iso2_list))
                 \o DOT \o compact_args.indicator

\* a built key for a list given out of order, with a duplicate and in mixed case
C1_Witness ==
    /\ compact_url # NotCalled
    /\ compact_args.iso2_list = <<<<90, 65>>, <<97, 114>>, <<65, 82>>>>
    /\ compact_url.key = <<77, 46, 65, 82, 43, 90, 65, 46, 80, 67, 80, 73>>

\* ------------------------------------------------------------------------
\* World Bank Indicators: wb_fetch_indicator
\* ------------------------------------------------------------------------
MaxPage == 3     \* GETs one call may issue in the model
MaxRows == 2     \* observations per page

\* a Python dict is a function from its keys; d.get(k, default)
EmptyDict == [k \in {} |-> Null]
DictGet(d, k, default) == IF k \in DOMAIN d THEN d[k] ELSE default

\* a date string holding the decimal numeral of n
DateStr(n) == [str |-> "numeral", n |-> n]

\* the i-th observation of page p, as the API nests it
WbObs(p, i) ==
    [country |-> [id |-> "BR", value |-> "Brazil"],
     countryiso3code |-> "BRA",
     indicator |-> [id |-> "NY.GDP.MKTP.KD.ZG", value |-> "GDP growth (annual %)"],
     date |-> DateStr(2000 + 10 * p + i),
     value |-> 100 * p + i]

WbData(p, n) == [i \in 1..n |-> WbObs(p, i)]

\* payloads: [] or null; a one-element array (the API's error message); and
\* [meta, data] with data null or an array, meta with or without "pages"
EmptyPayload == [shape |-> "empty"]
ShortPayload == [shape |-> "short"]
Pair(meta, data) == [shape |-> "pair", meta |-> meta, data |-> data]
NullData == [isnull |-> TRUE]
DataArray(rows) == [isnull |-> FALSE, rows |-> rows]

Metas(totals) == {EmptyDict} \cup {[k \in {"pages"} |-> t] : t \in totals}

PairsWithData(p, totals) ==
    {Pair(m, DataArray(WbData(p, n))) : m \in Metas(totals), n \in 0..MaxRows}
PairsNullData(totals) == {Pair(m, NullData) : m \in Metas(totals)}

HttpError == [shape |-> "http_error"]

\* what the server may answer to the GET of page p
ServerResponses(srv, p) ==
    IF srv.kind = "fixed"
    THEN {r \in PairsWithData(p, {srv.N}) \cup PairsNullData({srv.N}) : "pages" \in DOMAIN r.meta}
    ELSE IF srv.kind = "null" /\ p = srv.at
    THEN {EmptyPayload, ShortPayload} \cup PairsNullData(0..(MaxPage + 1))
    ELSE {EmptyPayload, ShortPayload}
           \cup PairsNullData(0..(MaxPage + 1))
           \cup PairsWithData(p, 0..(MaxPage + 1))
           \cup (IF srv.kind = "free" THEN {HttpError} ELSE {})

\* if not payload or len(payload) < 2 or payload[1] is None
NoData(payload) ==
    \/ payload.shape = "empty"
    \/ payload.shape = "short"
    \/ payload.shape = "pair" /\ payload.data.isnull

\* the row built from one observation
WbRow(obs) ==
    [country |-> obs.country.value,
     iso3 |-> obs.countryiso3code,
     indicator |-> obs.indicator.id,
     date |-> obs.date,
     value |-> obs.value]

\* total_pages = int(meta.get("pages", 1))
TotalPages(meta) == DictGet(meta, "pages", 1)

LastPageOffByOne(p, total_pages) == p > total_pages

\* if page >= total_pages: break
LastPage(p, total_pages) == p >= total_pages

NextPageSame(p) == p

\* page += 1
NextPage(p) == p + 1

\* pd.to_numeric(..., errors="coerce").astype("Int64") on one date
ToNumeric(d) == IF d.str = "numeral" THEN [isnull |-> FALSE, n |-> d.n] ELSE [isnull |-> TRUE]

WbColumns == <<"country", "iso3", "indicator", "date", "value">>

\* the date coercion without its `if not df.empty` guard: df["date"] on a
\* frame built from no rows has no such column
WbFrameUnguarded(rows) ==
    IF Len(rows) = 0 THEN Raised("KeyError")
    ELSE [columns |-> WbColumns,
          rows |-> [i \in 1..Len(rows) |-> [rows[i] EXCEPT !.date = ToNumeric(@)]]]

\* df = pd.DataFrame(rows); if not df.empty: df["date"] = to_numeric(df["date"])
WbFrame(rows) ==
    IF Len(rows) = 0 THEN [columns |-> <<>>, rows |-> <<>>]
    ELSE [columns |-> WbColumns,
          rows |-> [i \in 1..Len(rows) |-> [rows[i] EXCEPT !.date = ToNumeric(@)]]]

WbServers ==
    {[kind |-> "fixed", N |-> n] : n \in 1..MaxPage}
      \cup {[kind |-> "null", at |-> k] : k \in 1..MaxPage}
      \cup {[kind |-> "free"]}

WbStart ==
    /\ wb_srv \in WbServers
    /\ page = 1
    /\ wb_rows = <<>>
    /\ wb_requests = <<>>
    /\ wb_responses = <<>>
    /\ wb_pc = "loop"
    /\ wb_df = NotCalled

WbRest ==
    /\ wb_srv = [kind |-> "rest"]
    /\ page = 1
    /\ wb_rows = <<>>
    /\ wb_requests = <<>>
    /\ wb_responses = <<>>
    /\ wb_pc = "rest"
    /\ wb_df = NotCalled

\* one pass of the while loop: the GET of `page` and what the body does with it
WbIterate ==
    /\ wb_pc = "loop"
    /\ Len(wb_requests) < MaxPage
    /\ \E payload \in ServerResponses(wb_srv, page) :
        /\ wb_requests' = Append(wb_requests, page)
        /\ wb_responses' = Append(wb_responses, payload)
        /\ IF payload.shape = "http_error"
           THEN /\ wb_pc' = "raised"
                /\ wb_df' = Raised("HTTPError")
                /\ UNCHANGED <<page, wb_rows>>
           ELSE IF NoData(payload)
           THEN /\ wb_pc' = "after_loop"
                /\ UNCHANGED <<page, wb_rows, wb_df>>
           ELSE /\ wb_rows' = wb_rows \o [i \in 1..Len(payload.data.rows) |->
                                              WbRow(payload.data.rows[i])]
                /\ IF LastPage(page, TotalPages(payload.meta))
                   THEN wb_pc' = "after_loop" /\ page' = page
                   ELSE wb_pc' = "loop" /\ page' = NextPage(page)
                /\ UNCHANGED wb_df
    /\ UNCHANGED <<wb_srv, notWb>>

\* the code after the loop
WbReturn ==
    /\ wb_pc = "after_loop"
    /\ wb_df' = WbFrame(wb_rows)
    /\ wb_pc' = "done"
    /\ UNCHANGED <<wb_srv, page, wb_rows, wb_requests, wb_responses>>
    /\ UNCHANGED notWb

\* ---- C2 ----
RECURSIVE RowsOfPages(_)
\* the rows of the pages read, page after page, each page's in its own order
RowsOfPages(responses) ==
    IF Len(responses) = 0 THEN <<>>
    ELSE LET d == responses[1].data.rows
         IN  [i \in 1..Len(d) |->
                 [country |-> d[i].country.value, iso3 |-> d[i].countryiso3code,
                  indicator |-> d[i].indicator.id,
                  date |-> [isnull |-> FALSE, n |-> d[i].date.n],
                  value |-> d[i].value]]
               \o RowsOfPages(Tail(responses))

EveryPageHasData ==
    \A i \in 1..Len(wb_responses) :
        wb_responses[i].shape = "pair" /\ ~wb_responses[i].data.isnull

\* C2: when every page of an N-page sequence reports pages = N and carries a
\* data array, the call requests pages 1..N in order, each once, and returns
\* every row of every page once, in page order and within-page order; with
\* pages = 1 on page 1 it issues exactly one request.
C2_AllPagesOnce ==
    (wb_pc = "done" /\ wb_srv.kind = "fixed" /\ EveryPageHasData) =>
        /\ wb_requests = [i \in 1..wb_srv.N |-> i]
        /\ wb_df.rows = RowsOfPages(wb_responses)
        /\ Len(wb_responses) = wb_srv.N

\* three pages of two rows each were read and returned
C2_Witness ==
    /\ wb_pc = "done"
    /\ wb_srv = [kind |-> "fixed", N |-> 3]
    /\ wb_requests = <<1, 2, 3>>
    /\ Len(wb_df.rows) = 6
    /\ wb_df.rows[3].value = 201

\* ---- C3 ----
\* no GET asks for a page beyond the total the previous page reported
PageWithinTotal ==
    \A i \in 2..Len(wb_requests) :
        /\ wb_responses[i - 1].shape = "pair"
        /\ wb_requests[i] <= TotalPages(wb_responses[i - 1].meta)

\* C3: the pagination loop terminates whenever the reported total is a fixed
\* N >= 1 or some page returns a null/missing data array, and it never
\* requests a page beyond the total reported by the last page it read.
C3_Terminates ==
    /\ []PageWithinTotal
    /\ (wb_srv.kind \in {"fixed", "null"}) => <>(wb_pc = "done")

\* the loop was ended by a missing data array on its second page
C3_Witness ==
    /\ wb_pc = "done"
    /\ wb_srv.kind = "null"
    /\ wb_requests = <<1, 2>>
    /\ NoData(wb_responses[2])
    /\ Len(wb_df.rows) = 2

\* ---- C12 ----
\* C12: a page whose data array is null or missing is a clean end of data:
\* no GET follows it, the call raises no error, and the table returned holds
\* exactly the rows of the pages read before it, in order (no row at all
\* when that page is page 1).
C12_NullPageEndsCleanly ==
    \A i \in 1..Len(wb_responses) :
        NoData(wb_responses[i]) =>
            /\ i = Len(wb_responses)
            /\ wb_pc \in {"after_loop", "done"}
            /\ wb_pc = "done" =>
                  /\ "rows" \in DOMAIN wb_df
                  /\ wb_df.rows = RowsOfPages(SubSeq(wb_responses, 1, i - 1))

\* page 1 gave no data array and the call returned a table without rows
C12_Witness ==
    /\ wb_pc = "done"
    /\ Len(wb_responses) = 1
    /\ wb_responses[1].shape = "pair"
    /\ wb_responses[1].data.isnull
    /\ wb_df.rows = <<>>

\* ------------------------------------------------------------------------
\* Country mapping: resolve_country, build_country_table
\* ------------------------------------------------------------------------
\* A country name is a sequence of chunks: " " is one whitespace character,
\* any other chunk is a run of text that neither starts nor ends with
\* whitespace.  "North Macedonia " is <<"North Macedonia", " ">>.
MaxNames == 3

RECURSIVE lstrip(_)
lstrip(s) == IF Len(s) > 0 /\ Head(s) = " " THEN lstrip(Tail(s)) ELSE s
RECURSIVE rstrip(_)
rstrip(s) == IF Len(s) > 0 /\ s[Len(s)] = " " THEN rstrip(SubSeq(s, 1, Len(s) - 1)) ELSE s
\* str.strip()
strip(s) == rstrip(lstrip(s))

\* the table as (key, (iso2, iso3, official_name)) pairs
MANUAL_COUNTRY_OVERRIDES ==
    {<<<<"China (inc. Hong Kong SAR results)">>, <<"CN", "CHN", <<"China">>>>>>,
     <<<<"D.R. Congo">>, <<"CD", "COD", <<"Congo, The Democratic Republic of the">>>>>>,
     <<<<"Hong Kong SAR (inc. China results)">>, <<"HK", "HKG", <<"Hong Kong">>>>>>,
     <<<<"Montenegro, Rep. of">>, <<"ME", "MNE", <<"Montenegro">>>>>>,
     <<<<"Timor-Leste, Dem. Rep. of">>, <<"TL", "TLS", <<"Timor-Leste">>>>>>,
     <<<<"Taiwan Province of China">>, <<"TW", "TWN", <<"Taiwan, Province of China">>>>>>,
     <<<<"West Bank & Gaza">>, <<"PS", "PSE", <<"Palestine, State of">>>>>>,
     <<<<"Korea">>, <<"KR", "KOR", <<"Korea, Republic of">>>>>>,
     <<<<"Kosovo">>, <<"XK", "XKX", <<"Kosovo">>>>>>,
     <<<<"North Macedonia", " ">>, <<"MK", "MKD", <<"North Macedonia">>>>>>}

OverrideKeys == {e[1] : e \in MANUAL_COUNTRY_OVERRIDES}
\* MANUAL_COUNTRY_OVERRIDES[key]
OverrideOf(key) == (CHOOSE e \in MANUAL_COUNTRY_OVERRIDES : e[1] = key)[2]

CountryCode(rn, iso2, iso3, official_name) ==
    [raw_name |-> rn, iso2 |-> iso2, iso3 |-> iso3, official_name |-> official_name]

\* what pycountry.countries.search_fuzzy(raw)[0] may be: a best match, or
\* NotFound when search_fuzzy raises LookupError(raw)
NotFound == [found |-> FALSE]
Match(a2, a3, name) == [found |-> TRUE, alpha_2 |-> a2, alpha_3 |-> a3, name |-> name]
FuzzyOutcomes ==
    {NotFound,
     Match("MK", "MKD", <<"North Macedonia">>),
     Match("KP", "PRK", <<"Korea, Democratic People's Republic of">>),
     Match("PE", "PER", <<"Peru">>)}
\* the value of the match when search_fuzzy is not called
NoFuzzy == [found |-> "not called"]

\* raw in MANUAL_COUNTRY_OVERRIDES, for raw = raw_name.strip()
InOverrides(rn) == strip(rn) \in OverrideKeys

\* whether the call reaches search_fuzzy
ConsultsFuzzy(rn) == ~InOverrides(rn)

\* resolve_country(raw_name), m being what search_fuzzy answers if it is asked
resolve_country(rn, m) ==
    LET raw == strip(rn) IN
    IF InOverrides(rn)
    THEN LET o == OverrideOf(raw) IN CountryCode(rn, o[1], o[2], o[3])
    ELSE IF m.found = TRUE
    THEN CountryCode(rn, m.alpha_2, m.alpha_3, m.name)
    ELSE Raised(<<"LookupError">> \o raw)

\* the answers search_fuzzy may give this call
FuzzyAnswers(rn) == IF ConsultsFuzzy(rn) THEN FuzzyOutcomes ELSE {NoFuzzy}

OtherNames == {<<"Peru">>, <<"Nonexistent Place XYZ">>, <<"North Macedonia">>, <<>>}
Padded(S) == S \cup {<<" ">> \o k : k \in S} \cup {k \o <<" ">> : k \in S}
ResolveNames == Padded(OverrideKeys \cup OtherNames)

ResolveStart ==
    /\ raw_name \in ResolveNames
    /\ c = NotCalled
    /\ fuzzy_calls = <<>>

ResolveRest ==
    /\ raw_name = <<>>
    /\ c = [status |-> "rest"]
    /\ fuzzy_calls = <<>>

ResolveCall ==
    /\ c = NotCalled
    /\ \E m \in FuzzyAnswers(raw_name) :
        /\ c' = resolve_country(raw_name, m)
        /\ fuzzy_calls' = IF ConsultsFuzzy(raw_name)
                          THEN Append(fuzzy_calls, strip(raw_name))
                          ELSE fuzzy_calls
    /\ UNCHANGED <<raw_name, notResolve>>

\* ---- build_country_table ----
ResolvedRow(cc) ==
    [raw_name |-> cc.raw_name, iso2 |-> cc.iso2, iso3 |-> cc.iso3,
     official_name |-> cc.official_name]

\* f"UNRESOLVED: {exc}": str(exc) of LookupError(raw) is raw
UnresolvedRow(n, exc) ==
    [raw_name |-> n, iso2 |-> Null, iso3 |-> Null,
     official_name |-> <<"UNRESOLVED: ">> \o Tail(exc.raised)]

IsRaised(r) == "raised" \in DOMAIN r

TableAppendSkipFailed(rows, n, r) ==
    IF IsRaised(r) THEN rows ELSE Append(rows, ResolvedRow(r))

\* the try/except of one loop pass, r being what resolve_country(n) did
TableAppend(rows, n, r) ==
    IF IsRaised(r) THEN Append(rows, UnresolvedRow(n, r)) ELSE Append(rows, ResolvedRow(r))

CountryColumns == <<"raw_name", "iso2", "iso3", "official_name">>

\* pd.DataFrame(rows): the columns are the rows' keys; none without rows
CountryFrame(rows) ==
    [columns |-> IF Len(rows) = 0 THEN <<>> ELSE CountryColumns, rows |-> rows]

TableNames ==
    {<<"Kosovo">>, <<"North Macedonia", " ">>, <<"Peru">>, <<"Nonexistent Place XYZ">>}

\* The default argument (raw_names is None: the 124 names of RAW_COUNTRIES)
\* runs the same loop; the calls modelled pass their list.
TableStart ==
    /\ raw_names \in SeqsUpTo(TableNames, MaxNames)
    /\ country_rows = <<>>
    /\ fuzzy_results = <<>>
    /\ table_pc = "loop"
    /\ country_table = NotCalled

TableRest ==
    /\ raw_names = <<>>
    /\ country_rows = <<>>
    /\ fuzzy_results = <<>>
    /\ table_pc = "rest"
    /\ country_table = NotCalled

\* one pass of `for n in raw_names`
TableIterate ==
    /\ table_pc = "loop"
    /\ Len(fuzzy_results) < Len(raw_names)
    /\ LET n == raw_names[Len(fuzzy_results) + 1] IN
       \E m \in FuzzyAnswers(n) :
        /\ country_rows' = TableAppend(country_rows, n, resolve_country(n, m))
        /\ fuzzy_results' = Append(fuzzy_results, m)
    /\ UNCHANGED <<raw_names, table_pc, country_table, notTable>>

TableReturn ==
    /\ table_pc = "loop"
    /\ Len(fuzzy_results) = Len(raw_names)
    /\ country_table' = CountryFrame(country_rows)
    /\ table_pc' = "done"
    /\ UNCHANGED <<raw_names, country_rows, fuzzy_results, notTable>>

\* ---- C4 ----
\* C4: resolve_country called with any key of MANUAL_COUNTRY_OVERRIDES
\* (the trailing-space key 'North Macedonia ' included) returns exactly the
\* override's (iso2, iso3, official_name) and never consults fuzzy matching.
C4_OverrideWins ==
    (c # NotCalled /\ raw_name \in OverrideKeys) =>
        /\ c = CountryCode(raw_name, OverrideOf(raw_name)[1], OverrideOf(raw_name)[2],
                           OverrideOf(raw_name)[3])
        /\ fuzzy_calls = <<>>

\* ---- C5 ----
\* the row the claim expects for name n when search_fuzzy answered m
ExpectedRow(n, m) ==
    IF strip(n) \in OverrideKeys
    THEN [raw_name |-> n, iso2 |-> OverrideOf(strip(n))[1], iso3 |-> OverrideOf(strip(n))[2],
          official_name |-> OverrideOf(strip(n))[3]]
    ELSE IF m = NotFound
    THEN [raw_name |-> n, iso2 |-> Null, iso3 |-> Null,
          official_name |-> <<"UNRESOLVED: ">> \o strip(n)]
    ELSE [raw_name |-> n, iso2 |-> m.alpha_2, iso3 |-> m.alpha_3, official_name |-> m.name]

IsMarker(official_name) == Len(official_name) > 0 /\ official_name[1] = "UNRESOLVED: "

\* C5: build_country_table never aborts and returns one row per input name,
\* in input order, without deduplication; a name that fails to resolve gives
\* a row with null iso2 and iso3 and official_name 'UNRESOLVED: <cause>', and
\* leaves every other row what it would be alone; iso2 is null exactly in
\* the rows whose official_name is the marker.
C5_OneRowPerName ==
    /\ table_pc \in {"rest", "loop", "done"}
    /\ Len(country_rows) = Len(fuzzy_results)
    /\ table_pc = "done" =>
        /\ Len(country_table.rows) = Len(raw_names)
        /\ \A i \in 1..Len(raw_names) :
            /\ country_table.rows[i] = ExpectedRow(raw_names[i], fuzzy_results[i])
            /\ (country_table.rows[i].iso2 = Null) <=> IsMarker(country_table.rows[i].official_name)
            /\ (country_table.rows[i].iso2 = Null) => (country_table.rows[i].iso3 = Null)

\* a batch with the same failing name on both sides of a name that resolves
C5_Witness ==
    /\ table_pc = "done"
    /\ raw_names = <<<<"Nonexistent Place XYZ">>, <<"Kosovo">>, <<"Nonexistent Place XYZ">>>>
    /\ country_table.rows[1].iso2 = Null
    /\ country_table.rows[2].iso2 = "XK"
    /\ country_table.rows[3].official_name = <<"UNRESOLVED: ", "Nonexistent Place XYZ">>

\* ------------------------------------------------------------------------
\* IMF CompactData: imf_compact_to_df
\* ------------------------------------------------------------------------
\* JSON values carry their type, as isinstance() and float() tell them apart.
MaxSeries == 2   \* series in a Series list
MaxObs == 2      \* observations in one document

JNull == [t |-> "null"]
JStr(x) == [t |-> "str", s |-> x]
JArr(items) == [t |-> "array", items |-> items]
JObj(d) == [t |-> "object", d |-> d]
JFloat(tenths) == [t |-> "float", tenths |-> tenths]

\* d.get(k): None for a missing key
Get(d, k) == IF k \in DOMAIN d THEN d[k] ELSE JNull

CompactColumns == <<"freq", "ref_area", "indicator", "time_period", "value">>

NoColumnsFrame == [columns |-> <<>>, rows |-> <<>>]

\* pd.DataFrame(columns=[...]) of the missing-Series return
EmptyCompactFrame == [columns |-> CompactColumns, rows |-> <<>>]

\* pd.DataFrame(rows): the columns are the rows' keys; none without rows
CompactFrame(rows) ==
    [columns |-> IF Len(rows) = 0 THEN <<>> ELSE CompactColumns, rows |-> rows]

\* float(value) of a str in the model: the numeral's value in tenths
NumericStrings == {"12.5"}
TenthsOf(x) == IF x = "12.5" THEN 125 ELSE 0

\* float(value): ValueError for a str that is no numeral, TypeError for a
\* value that is neither a str nor a number
float(value) ==
    IF value.t = "str"
    THEN IF value.s \in NumericStrings THEN JFloat(TenthsOf(value.s)) ELSE Raised("ValueError")
    ELSE IF value.t = "float" THEN value
    ELSE Raised("TypeError")

\* the value of one observation: None for None and "", float(value) otherwise,
\* None when float raises ValueError; any other exception leaves the function
ParseValue(value) ==
    IF value = JNull \/ value = JStr("") THEN JNull
    ELSE IF float(value) = Raised("ValueError") THEN JNull
    ELSE float(value)

NormalizeDroppingObject(node) == IF node.t = "array" THEN node.items ELSE <<>>

\* if isinstance(x, dict): x = [x]
Normalize(node) == IF node.t = "object" THEN <<node.d>> ELSE node.items

\* obs = s.get("Obs", [])
ObsOf(series) == IF "Obs" \in DOMAIN series THEN series["Obs"] ELSE JArr(<<>>)

\* the rows of one series
SeriesRows(series) ==
    LET obs == Normalize(ObsOf(series)) IN
    [i \in 1..Len(obs) |->
        [freq |-> Get(series, "@FREQ"),
         ref_area |-> Get(series, "@REF_AREA"),
         indicator |-> Get(series, "@INDICATOR"),
         time_period |-> Get(obs[i], "@TIME_PERIOD"),
         value |-> ParseValue(Get(obs[i], "@OBS_VALUE"))]]

RECURSIVE AllRows(_)
AllRows(series_list) ==
    IF Len(series_list) = 0 THEN <<>>
    ELSE SeriesRows(series_list[1]) \o AllRows(Tail(series_list))

SeriesNode(doc) ==
    Get(DictGet(DictGet(doc, "CompactData", EmptyDict), "DataSet", EmptyDict), "Series")

imf_compact_to_df(doc) ==
    LET series == SeriesNode(doc) IN
    IF series = JNull THEN EmptyCompactFrame
    ELSE LET rows == AllRows(Normalize(series))
             bad == {i \in 1..Len(rows) : IsRaised(rows[i].value)}
         IN  IF bad # {}
             THEN rows[CHOOSE i \in bad : \A j \in bad : i <= j].value
             ELSE CompactFrame(rows)

\* ---- the documents of the model ----
\* the value fields: "", a numeral, a str that is no numeral, an array; and
\* the observation with no value field
ObsValues == {JStr(""), JStr("12.5"), JStr("n/a"), JArr(<<>>)}
ObsObjects ==
    {("@TIME_PERIOD" :> JStr("2020-01")) @@ ("@OBS_VALUE" :> v) : v \in ObsValues}
      \cup {"@TIME_PERIOD" :> JStr("2020-01")}
SeriesAttrs ==
    {("@FREQ" :> JStr("M")) @@ ("@REF_AREA" :> JStr("BR")) @@ ("@INDICATOR" :> JStr("PCPI_IX"))}

\* the Obs nodes holding exactly k observations
ObsNodes(k) ==
    IF k = 0 THEN {JArr(<<>>)}
    ELSE IF k = 1 THEN {JObj(o) : o \in ObsObjects} \cup {JArr(<<o>>) : o \in ObsObjects}
    ELSE {JArr(l) : l \in [1..k -> ObsObjects]}

\* the series objects holding exactly k observations
SeriesObjects(k) ==
    {a @@ ("Obs" :> n) : a \in SeriesAttrs, n \in ObsNodes(k)}
      \cup (IF k = 0 THEN SeriesAttrs ELSE {})

RECURSIVE SeriesLists(_, _)
\* the lists of n series objects holding at most b observations together
SeriesLists(n, b) ==
    IF n = 0 THEN {<<>>}
    ELSE UNION {{<<srs>> \o rest : srs \in SeriesObjects(k), rest \in SeriesLists(n - 1, b - k)} :
                  k \in 0..b}

SeriesNodes ==
    {JNull}
      \cup UNION {{JObj(srs) : srs \in SeriesObjects(k)} : k \in 0..MaxObs}
      \cup UNION {{JArr(l) : l \in SeriesLists(n, MaxObs)} : n \in 0..MaxSeries}

DocWithSeries(node) == "CompactData" :> ("DataSet" :> ("Series" :> node))
DocNoSeries == "CompactData" :> ("DataSet" :> ("@xmlns" :> JStr("http://dataservices.imf.org/compact/CPI")))

\* a series without attributes, an observation with a null value and one
\* without a time period
BareDocs ==
    {DocWithSeries(JObj("Obs" :> JObj("@OBS_VALUE" :> JStr("12.5")))),
     DocWithSeries(JArr(<<"Obs" :> JArr(<<("@TIME_PERIOD" :> JStr("2020-01"))
                                            @@ ("@OBS_VALUE" :> JNull)>>)>>))}

CompactDocs ==
    {EmptyDict, "CompactData" :> EmptyDict, "CompactData" :> ("DataSet" :> EmptyDict), DocNoSeries}
      \cup {DocWithSeries(node) : node \in SeriesNodes}
      \cup BareDocs

ParseStart ==
    /\ json_obj \in CompactDocs
    /\ df = NotCalled

ParseRest ==
    /\ json_obj = EmptyDict
    /\ df = [status |-> "rest"]

ParseCall ==
    /\ df = NotCalled
    /\ df' = imf_compact_to_df(json_obj)
    /\ UNCHANGED <<json_obj, notParse>>

\* ---- C6 ----
HasSeriesKey(doc) ==
    /\ "CompactData" \in DOMAIN doc
    /\ "DataSet" \in DOMAIN doc["CompactData"]
    /\ "Series" \in DOMAIN doc["CompactData"]["DataSet"]

\* C6: for a response with no Series node, imf_compact_to_df returns a table
\* with exactly the columns freq, ref_area, indicator, time_period, value
\* and zero rows.
C6_NoSeriesEmptyFrame ==
    (df # NotCalled /\ ~HasSeriesKey(json_obj)) =>
        /\ df.columns = <<"freq", "ref_area", "indicator", "time_period", "value">>
        /\ df.rows = <<>>

\* a parsed response whose DataSet carries no Series
C6_Witness ==
    /\ df # NotCalled
    /\ json_obj = DocNoSeries
    /\ Len(df.columns) = 5

\* ---- C7 ----
\* a single object as the one-element list, a one-element list as the object
OtherShape(node) ==
    IF node.t = "object" THEN JArr(<<node.d>>)
    ELSE IF node.t = "array" /\ Len(node.items) = 1 THEN JObj(node.items[1])
    ELSE node

\* the node with the Obs of its i-th series in the other shape
WithObsReshaped(node, i) ==
    LET l == Normalize(node)
        l2 == [l EXCEPT ![i] = [l[i] EXCEPT !["Obs"] = OtherShape(@)]]
    IN  IF node.t = "object" THEN JObj(l2[1]) ELSE JArr(l2)

\* the documents that differ from doc in one single-vs-list spelling
Reshaped(doc) ==
    LET node == SeriesNode(doc) IN
    IF node = JNull THEN {}
    ELSE {DocWithSeries(OtherShape(node))}
           \cup {DocWithSeries(WithObsReshaped(node, i)) :
                   i \in {j \in 1..Len(Normalize(node)) : "Obs" \in DOMAIN Normalize(node)[j]}}

\* C7: the parsed output is the same when Series is the single object S as
\* when it is the list [S], and the same when a series' Obs is the single
\* object O as when it is the list [O].
C7_SingleEqualsList ==
    (df # NotCalled) => \A d \in Reshaped(json_obj) : imf_compact_to_df(d) = df

\* a parsed response whose Series and whose Obs are both single objects
C7_Witness ==
    /\ df # NotCalled
    /\ SeriesNode(json_obj).t = "object"
    /\ ObsOf(SeriesNode(json_obj).d).t = "object"
    /\ ~IsRaised(df)
    /\ Len(df.rows) = 1
    /\ df.rows[1].value = JFloat(125)

\* ---- C8 ----
RECURSIVE Observations(_)
\* the observations of a list of series, in document order
Observations(series_list) ==
    IF Len(series_list) = 0 THEN <<>>
    ELSE Normalize(ObsOf(series_list[1])) \o Observations(Tail(series_list))

\* the value field is absent, null, an empty string, or no number
NotANumber(ob) ==
    \/ "@OBS_VALUE" \notin DOMAIN ob
    \/ ob["@OBS_VALUE"].t \notin {"str", "float"}
    \/ ob["@OBS_VALUE"].t = "str" /\ ob["@OBS_VALUE"].s \notin NumericStrings

\* C8: every observation whose value field is absent, an empty string or
\* not parseable as a number gives a row with value = null: the call raises
\* no exception, drops no row and yields no 0.
C8_BadValueIsNull ==
    (df # NotCalled /\ SeriesNode(json_obj) # JNull) =>
        LET obs == Observations(Normalize(SeriesNode(json_obj))) IN
        /\ ~IsRaised(df)
        /\ Len(df.rows) = Len(obs)
        /\ \A i \in 1..Len(obs) : NotANumber(obs[i]) => df.rows[i].value = JNull

\* ---- C16 ----
\* C16: every table the parser returns without rows has exactly the columns
\* freq, ref_area, indicator, time_period, value: not only when the Series
\* node is missing, but also when Series is an empty list and when every
\* series has an absent or empty Obs node.
C16_EmptyTableKeepsColumns ==
    (df # NotCalled /\ ~IsRaised(df) /\ Len(df.rows) = 0) =>
        df.columns = CompactColumns

\* ------------------------------------------------------------------------
\* IMF CompactData: the pulls (imf_compact_request_raw, imf_compact_request,
\* fetch_imf_series)
\* ------------------------------------------------------------------------
\* a response: its status and its body; a body is its text and, when the
\* text is JSON, the document it parses to
JsonBody(text, doc) == [text |-> text, is_json |-> TRUE, doc |-> doc]
TextBody(text) == [text |-> text, is_json |-> FALSE]

OneObsDoc(v) ==
    DocWithSeries(JObj(("@FREQ" :> JStr("M")) @@ ("@REF_AREA" :> JStr("MX"))
                         @@ ("@INDICATOR" :> JStr("PCPI_IX"))
                         @@ ("Obs" :> JObj(("@TIME_PERIOD" :> JStr("2020-01"))
                                              @@ ("@OBS_VALUE" :> v)))))

HttpBodies ==
    {JsonBody("no-series", DocNoSeries),
     JsonBody("one-obs", OneObsDoc(JStr("12.5"))),
     JsonBody("empty-value", OneObsDoc(JStr(""))),
     JsonBody("array-value", OneObsDoc(JArr(<<>>))),
     TextBody("<html>Service unavailable</html>")}
HttpStatuses == {200, 404, 500}
HttpResponses == [status : HttpStatuses, body : HttpBodies]

\* resp.raise_for_status(): HTTPError for 4xx and 5xx
RaisesForStatus(resp) == resp.status >= 400 /\ resp.status < 600

NoneJson == [is_none |-> TRUE]
SomeJson(doc) == [is_none |-> FALSE, doc |-> doc]

\* imf_compact_request_raw once the URL is built and resp has come back
RawResult(built, resp) ==
    IF RaisesForStatus(resp) THEN Raised("HTTPError")
    ELSE [json_obj |-> IF resp.body.is_json THEN SomeJson(resp.body.doc) ELSE NoneJson,
          text |-> resp.body.text,
          url |-> built.url]

\* imf_compact_request on what imf_compact_request_raw did
imf_compact_request(raw) ==
    IF IsRaised(raw) THEN raw
    ELSE IF raw.json_obj.is_none THEN Raised("ValueError")
    ELSE [json |-> raw.json_obj.doc]

\* fetch_imf_series on what imf_compact_request_raw did
fetch_imf_series(raw, return_raw_json) ==
    IF IsRaised(raw) THEN raw
    ELSE LET table == IF raw.json_obj.is_none THEN EmptyCompactFrame
                      ELSE imf_compact_to_df(raw.json_obj.doc)
         IN  IF IsRaised(table) THEN table
             ELSE IF return_raw_json THEN [df |-> table, raw_text |-> raw.text]
             ELSE [df |-> table]

PullCalls ==
    [fn : {"fetch_imf_series"}, return_raw_json : BOOLEAN,
     iso2_list : {<<>>, <<<<77, 88>>>>, <<<<98, 114>>, <<65, 82>>>>}]
      \cup [fn : {"imf_compact_request", "imf_compact_request_raw"}, return_raw_json : {FALSE},
            iso2_list : {<<>>, <<<<77, 88>>>>, <<<<98, 114>>, <<65, 82>>>>}]

PullStart ==
    /\ pull_call \in PullCalls
    /\ http_log = <<>>
    /\ pull_result = NotCalled

PullRest ==
    /\ pull_call = [fn |-> "rest"]
    /\ http_log = <<>>
    /\ pull_result = [status |-> "rest"]

PullResult(call, raw) ==
    IF call.fn = "fetch_imf_series" THEN fetch_imf_series(raw, call.return_raw_json)
    ELSE IF call.fn = "imf_compact_request" THEN imf_compact_request(raw)
    ELSE raw

\* one call of a pull function: the URL is built, then one GET is issued
PullCall ==
    /\ pull_result = NotCalled
    /\ LET built == _build_imf_compact_url("CPI", <<77>>, <<80, 67, 80, 73>>,
                                           pull_call.iso2_list, "1990", "2030")
       IN  IF IsRaised(built)
           THEN /\ pull_result' = built
                /\ UNCHANGED http_log
           ELSE \E resp \in HttpResponses :
                /\ http_log' = Append(http_log, resp)
                /\ pull_result' = PullResult(pull_call, RawResult(built, resp))
    /\ UNCHANGED <<pull_call, notPull>>

\* ---- C9 ----
\* C9: a CompactData pull (fetch_imf_series, imf_compact_request) whose HTTP
\* response is non-2xx or whose body is not JSON ends in an error propagated
\* to the caller, never in a returned table; the pull issues exactly one
\* HTTP request and does not retry.
C9_BadResponseRaises ==
    (/\ pull_result # NotCalled
     /\ pull_call.fn \in {"fetch_imf_series", "imf_compact_request"}
     /\ Len(http_log) > 0
     /\ \/ http_log[1].status < 200
        \/ http_log[1].status >= 300
        \/ ~http_log[1].body.is_json) =>
        /\ IsRaised(pull_result)
        /\ Len(http_log) = 1

\* ---- C11 ----
\* C11: every CompactData request (imf_compact_request_raw,
\* imf_compact_request, fetch_imf_series) made with an empty area list fails
\* with ValueError("iso2_list is empty"), the code's InvalidRequest, and no
\* HTTP request has been issued when it fails.
C11_EmptyAreasRejected ==
    (pull_result # NotCalled /\ pull_call.iso2_list = <<>>) =>
        /\ pull_result = Raised("ValueError")
        /\ http_log = <<>>

\* a pull with an empty area list has returned
C11_Witness ==
    /\ pull_call.fn = "fetch_imf_series"
    /\ pull_call.iso2_list = <<>>
    /\ pull_result = Raised("ValueError")
    /\ http_log = <<>>

\* ------------------------------------------------------------------------
\* IMF DataMapper: imf_dm_ref_areas, imf_dm_fetch_indicator
\* ------------------------------------------------------------------------
\* A JSON object whose order matters (.items(), next(iter(...))) is the
\* sequence of its (key, value) pairs.
MaxCalls == 2    \* calls of imf_dm_fetch_indicator in one process

EarliestYear == 1900

DObj(items) == [t |-> "object", items |-> items]
HasKey(items, k) == \E i \in 1..Len(items) : items[i][1] = k
Lookup(items, k) == items[CHOOSE i \in 1..Len(items) : items[i][1] = k][2]

NoYear == [is_none |-> TRUE]
Year(n) == [is_none |-> FALSE, n |-> n]

\* list(range(a, b))
RangeList(a, b) == [i \in 1..(b - a) |-> a + (i - 1)]

\* the years with the end year left out: range(a, end_year) for range(a, end_year + 1)
PeriodYearsEndExcluded(start_year, end_year) ==
    IF start_year.is_none THEN RangeList(EarliestYear, end_year.n)
    ELSE IF end_year.is_none THEN RangeList(start_year.n, start_year.n + 1)
    ELSE RangeList(start_year.n, end_year.n)

\* the years of the periods parameter; called with a bound given
PeriodYears(start_year, end_year) ==
    IF start_year.is_none THEN RangeList(EarliestYear, end_year.n + 1)
    ELSE IF end_year.is_none THEN RangeList(start_year.n, start_year.n + 1)
    ELSE RangeList(start_year.n, end_year.n + 1)

\* params: "periods" is ",".join(str(y) for y in years), kept as its numerals
DmParams(start_year, end_year) ==
    IF start_year.is_none /\ end_year.is_none THEN EmptyDict
    ELSE LET years == PeriodYears(start_year, end_year)
         IN  "periods" :> [i \in 1..Len(years) |-> DateStr(years[i])]

\* path = "/".join([indicator] + ref_areas)
DmPath(indicator, ref_areas) == <<indicator>> \o ref_areas

\* value = None if val is None, else float(val), None on TypeError/ValueError
DmValue(val) ==
    IF val = JNull THEN JNull
    ELSE IF IsRaised(float(val)) THEN JNull
    ELSE float(val)

\* the rows of one (ref_code, series) item; a series that is no dict is skipped
DmSeriesRows(indicator, ref_code, series) ==
    IF series.t # "object" THEN <<>>
    ELSE [i \in 1..Len(series.items) |->
             [indicator |-> indicator, refarea |-> ref_code,
              year |-> series.items[i][1].n,
              value |-> DmValue(series.items[i][2])]]

RECURSIVE DmRows(_, _)
DmRows(indicator, series_dict) ==
    IF Len(series_dict) = 0 THEN <<>>
    ELSE DmSeriesRows(indicator, series_dict[1][1], series_dict[1][2])
           \o DmRows(indicator, Tail(series_dict))

\* the first value of values, whether or not the indicator is a key
SeriesDictAlwaysFirst(values, indicator) == values[1][2]

\* series_dict = values.get(indicator), else the first value of values
SeriesDict(values, indicator) ==
    IF HasKey(values, indicator) THEN Lookup(values, indicator) ELSE values[1][2]

\* _fetch(endpoint, type_name) on the endpoint's answer: one row per code,
\* {"code", "type"} updated with the code's metadata
RefRows(type_name, data) ==
    [i \in 1..Len(data) |-> data[i][2] @@ ("code" :> data[i][1]) @@ ("type" :> type_name)]

RefEndpoints == <<"countries", "regions", "groups">>
Get_(endpoint, ok) == [endpoint |-> endpoint, ok |-> ok]
RefTypes == <<"country", "region", "group">>

\* imf_dm_ref_areas() against the answers srv of the three endpoints: the
\* GETs issued, and the concatenated table or what was raised
imf_dm_ref_areas(srv) ==
    LET failed == {i \in 1..3 : ~srv[i].ok} IN
    IF failed # {}
    THEN LET first == CHOOSE i \in failed : \A j \in failed : i <= j
         IN  [requests |-> [i \in 1..first |-> Get_(RefEndpoints[i], i < first)],
              table |-> Raised("HTTPError")]
    ELSE LET rows == RefRows(RefTypes[1], srv[1].data) \o RefRows(RefTypes[2], srv[2].data)
                       \o RefRows(RefTypes[3], srv[3].data)
         IN  [requests |-> [i \in 1..3 |-> Get_(RefEndpoints[i], TRUE)],
              table |-> [columns |-> UNION {DOMAIN rows[i] : i \in 1..Len(rows)},
                         rows |-> rows]]

\* the rows of an inner join: a left row without a match gives none
JoinedRowsInner(row, ref_rows) ==
    LET hits == SelectSeq(ref_rows, LAMBDA r : r["code"] = row.refarea) IN
    [i \in 1..Len(hits) |->
        [indicator |-> row.indicator, refarea |-> row.refarea, year |-> row.year,
         value |-> row.value, label |-> DictGet(hits[i], "label", Null),
         type |-> hits[i]["type"]]]

\* the rows a left row gives in df.merge(ref_table[["code","label","type"]],
\* how="left", left_on="refarea", right_on="code")
JoinedRows(row, ref_rows) ==
    LET hits == SelectSeq(ref_rows, LAMBDA r : r["code"] = row.refarea) IN
    IF Len(hits) = 0
    THEN <<[indicator |-> row.indicator, refarea |-> row.refarea, year |-> row.year,
            value |-> row.value, label |-> Null, type |-> Null]>>
    ELSE [i \in 1..Len(hits) |->
             [indicator |-> row.indicator, refarea |-> row.refarea, year |-> row.year,
              value |-> row.value, label |-> DictGet(hits[i], "label", Null),
              type |-> hits[i]["type"]]]

RECURSIVE LeftJoin(_, _)
LeftJoin(rows, ref_rows) ==
    IF Len(rows) = 0 THEN <<>>
    ELSE JoinedRows(rows[1], ref_rows) \o LeftJoin(Tail(rows), ref_rows)

DmColumns == <<"indicator", "refarea", "year", "value", "label", "type">>

\* imf_dm_fetch_indicator once the GET has answered resp; srv is what the
\* reference-area endpoints answer if they are asked.  The result and the
\* reference-area GETs issued.
DmResult(indicator, resp, srv) ==
    IF resp.status >= 400 THEN [requests |-> <<>>, df |-> Raised("HTTPError")]
    ELSE IF ~resp.body.is_json THEN [requests |-> <<>>, df |-> Raised("JSONDecodeError")]
    ELSE LET values == resp.body.doc IN
    IF Len(values) = 0 THEN [requests |-> <<>>, df |-> [columns |-> DmColumns, rows |-> <<>>]]
    ELSE LET rows == DmRows(indicator, SeriesDict(values, indicator)) IN
    IF Len(rows) = 0
    THEN [requests |-> <<>>, df |-> [columns |-> <<"label", "type">>, rows |-> <<>>]]
    ELSE LET ref == imf_dm_ref_areas(srv) IN
    IF IsRaised(ref.table) THEN [requests |-> ref.requests, df |-> ref.table]
    ELSE IF ~({"code", "label", "type"} \subseteq ref.table.columns)
    THEN [requests |-> ref.requests, df |-> Raised("KeyError")]
    ELSE [requests |-> ref.requests,
          df |-> [columns |-> DmColumns, rows |-> LeftJoin(rows, ref.table.rows)]]

\* ---- the calls and the answers of the model ----
DmIndicator == "NGDP_RPCH"
DmYearArgs == {NoYear, Year(1901), Year(1902)}
DmArgs ==
    [indicator : {DmIndicator}, ref_areas : {<<>>, <<"ARG">>},
     start_year : DmYearArgs, end_year : DmYearArgs]

ArgSeries == DObj(<<<<DateStr(1901), JFloat(5)>>, <<DateStr(1902), JNull>>>>)
BraSeries == DObj(<<<<DateStr(1903), JFloat(7)>>>>)
XyzSeries == DObj(<<<<DateStr(1901), JStr("n/a")>>>>)

\* the "values" object of the payloads: missing, keyed by the indicator,
\* keyed by another name, keyed by both with the indicator second, holding
\* a series that is no object, holding none
DmValuesObjects ==
    {<<>>,
     <<<<DmIndicator, <<<<"ARG", ArgSeries>>, <<"XYZ", XyzSeries>>>>>>>>,
     <<<<"NGDP_RPCH_2", <<<<"ARG", ArgSeries>>>>>>>>,
     <<<<"NGDP_RPCH_2", <<<<"BRA", BraSeries>>>>>>,
       <<DmIndicator, <<<<"ARG", ArgSeries>>, <<"XYZ", XyzSeries>>>>>>>>,
     <<<<DmIndicator, <<<<"ARG", JStr("n/a")>>>>>>>>,
     <<<<DmIndicator, <<>>>>>>}

DmResponses ==
    {[status |-> 200, body |-> JsonBody("values", v)] : v \in DmValuesObjects}
      \cup {[status |-> 200, body |-> TextBody("<html>")],
            [status |-> 500, body |-> TextBody("<html>")]}

\* an endpoint's answer: the (code, metadata) items of its object, or a
\* status that raise_for_status() turns into HTTPError
RefOk(data) == [ok |-> TRUE, data |-> data]
RefFail == [ok |-> FALSE]

\* the answers of the countries, regions and groups endpoints
DmRefAnswers ==
    {<<RefOk(<<<<"ARG", "label" :> "Argentina">>>>),
       RefOk(<<<<"WE", "label" :> "Western Europe">>>>),
       RefOk(<<<<"ADVEC", "label" :> "Advanced economies">>>>)>>,
     <<RefOk(<<<<"ARG", "label" :> "Argentina">>>>), RefFail, RefOk(<<>>)>>,
     <<RefOk(<<<<"ARG", "label" :> "Argentina">>>>), RefOk(<<<<"WE", EmptyDict>>>>),
       RefOk(<<>>)>>}

DmStart ==
    /\ dm_args = [status |-> "no call yet"]
    /\ dm_request = [status |-> "no call yet"]
    /\ dm_requests = <<>>
    /\ dm_calls = 0
    /\ dm_resp = [status |-> "no call yet"]
    /\ dm_ref = <<>>
    /\ dm_df = NotCalled

DmRest == DmStart

\* one call of imf_dm_fetch_indicator
DmCall ==
    /\ dm_calls < MaxCalls
    /\ \E args \in DmArgs, resp \in DmResponses, srv \in DmRefAnswers :
        LET res == DmResult(args.indicator, resp, srv) IN
        /\ dm_args' = args
        /\ dm_request' = [path |-> DmPath(args.indicator, args.ref_areas),
                          params |-> DmParams(args.start_year, args.end_year)]
        /\ dm_requests' = dm_requests \o <<Get_("indicator", resp.status < 400)>>
                             \o res.requests
        /\ dm_calls' = dm_calls + 1
        /\ dm_resp' = resp
        /\ dm_ref' = srv
        /\ dm_df' = res.df
    /\ UNCHANGED notDm

\* ---- C10 ----
IsRefGet(g) == g.endpoint \in {"countries", "regions", "groups"}

\* C10: across any sequence of imf_dm_fetch_indicator calls in one process
\* the reference-area metadata (countries, regions, groups) is fetched at
\* most once: after the call that fetched all three, no later call issues a
\* metadata request again.
C10_MetadataFetchedOnce ==
    \A i, j \in 1..Len(dm_requests) :
        (i < j /\ dm_requests[i] = Get_("groups", TRUE)) => ~IsRefGet(dm_requests[j])

\* ---- C13 ----
\* the latest call got a payload with series and returned a table
DmReturnedTable ==
    /\ dm_df # NotCalled
    /\ ~IsRaised(dm_df)
    /\ dm_resp.status = 200
    /\ dm_resp.body.is_json
    /\ Len(dm_resp.body.doc) > 0

\* the (refarea, year) entries of a series dict: those of its series that
\* are objects
Entries(series_dict) ==
    UNION {{<<series_dict[k][1], series_dict[k][2].items[i][1].n>> :
               i \in 1..Len(series_dict[k][2].items)} :
           k \in {j \in 1..Len(series_dict) : series_dict[j][2].t = "object"}}

\* the codes of the reference-area table the latest call fetched
RefCodes == UNION {{dm_ref[e].data[i][1] : i \in 1..Len(dm_ref[e].data)} : e \in 1..3}

\* C13: every (refarea, year) entry parsed from the payload is in the table
\* returned after the join with the reference-area table; an entry whose
\* refarea has no match there is kept, once, with null label and null type.
C13_LeftJoinKeepsUnmatched ==
    DmReturnedTable =>
        \A e \in Entries(SeriesDict(dm_resp.body.doc, dm_args.indicator)) :
            LET at == {i \in 1..Len(dm_df.rows) :
                          dm_df.rows[i].refarea = e[1] /\ dm_df.rows[i].year = e[2]}
            IN  /\ at # {}
                /\ e[1] \notin RefCodes =>
                      /\ Cardinality(at) = 1
                      /\ \A i \in at : dm_df.rows[i].label = Null /\ dm_df.rows[i].type = Null

\* a table came back holding a labelled ARG row and an XYZ row without label
C13_Witness ==
    /\ DmReturnedTable
    /\ \E i \in 1..Len(dm_df.rows) :
          dm_df.rows[i].refarea = "ARG" /\ dm_df.rows[i].label = "Argentina"
    /\ \E i \in 1..Len(dm_df.rows) :
          /\ dm_df.rows[i].refarea = "XYZ"
          /\ dm_df.rows[i].label = Null
          /\ dm_df.rows[i].type = Null

\* ---- C14 ----
\* the (refarea, year) pairs of the rows of the returned table
RowEntries == {<<dm_df.rows[i].refarea, dm_df.rows[i].year>> : i \in 1..Len(dm_df.rows)}

YearsFromTo(a, b) == [i \in 1..(b - a + 1) |-> DateStr(a + i - 1)]

\* C15: the periods parameter of the request lists exactly the years
\* start_year..end_year, ascending, when both bounds are given, exactly
\* 1900..end_year when only end_year is given, and is not sent when neither
\* bound is given.
C15_PeriodsFromBounds ==
    dm_df # NotCalled =>
        LET s == dm_args.start_year
            e == dm_args.end_year
            params == dm_request.params
        IN  /\ (~s.is_none /\ ~e.is_none) =>
                  "periods" \in DOMAIN params /\ params["periods"] = YearsFromTo(s.n, e.n)
            /\ (s.is_none /\ ~e.is_none) =>
                  "periods" \in DOMAIN params /\ params["periods"] = YearsFromTo(1900, e.n)
            /\ (s.is_none /\ e.is_none) => "periods" \notin DOMAIN params

\* a call with only end_year = 1902 asked for 1900, 1901 and 1902
C15_Witness ==
    /\ dm_df # NotCalled
    /\ dm_args.start_year = NoYear
    /\ dm_args.end_year = Year(1902)
    /\ dm_request.params["periods"] = <<DateStr(1900), DateStr(1901), DateStr(1902)>>

\* ------------------------------------------------------------------------
\* Specifications
\* ------------------------------------------------------------------------

InitKey == KeyStart /\ WbRest /\ ResolveRest /\ TableRest /\ ParseRest /\ PullRest /\ DmRest
NextKey == BuildUrl
SpecKey == InitKey /\ [][NextKey]_vars

InitWB == WbStart /\ KeyRest /\ ResolveRest /\ TableRest /\ ParseRest /\ PullRest /\ DmRest
NextWB == WbIterate \/ WbReturn
\* the call is synchronous straight-line code: it keeps taking its next step
SpecWB == InitWB /\ [][NextWB]_vars /\ WF_vars(NextWB)

InitResolve == ResolveStart /\ KeyRest /\ WbRest /\ TableRest /\ ParseRest /\ PullRest /\ DmRest
NextResolve == ResolveCall
SpecResolve == InitResolve /\ [][NextResolve]_vars

InitTable == TableStart /\ KeyRest /\ WbRest /\ ResolveRest /\ ParseRest /\ PullRest /\ DmRest
NextTable == TableIterate \/ TableReturn
SpecTable == InitTable /\ [][NextTable]_vars

InitParse == ParseStart /\ KeyRest /\ WbRest /\ ResolveRest /\ TableRest /\ PullRest /\ DmRest
NextParse == ParseCall
SpecParse == InitParse /\ [][NextParse]_vars

InitPull == PullStart /\ KeyRest /\ WbRest /\ ResolveRest /\ TableRest /\ ParseRest /\ DmRest
NextPull == PullCall
SpecPull == InitPull /\ [][NextPull]_vars

InitDM == DmStart /\ KeyRest /\ WbRest /\ ResolveRest /\ TableRest /\ ParseRest /\ PullRest
NextDM == DmCall
SpecDM == InitDM /\ [][NextDM]_vars

====
